---- MODULE Spec2Model ----
(***************************************************************************)
(* Model of the lock-free asynchronous Logger (logger.hpp, logger.cpp).    *)
(*                                                                         *)
(* Threads: producer threads calling Log, control threads calling          *)
(* StartBackGroundThread / ExitLogger / SetLogFile, and the background     *)
(* thread objects running get_it_done.  Every access to a shared atomic,   *)
(* a mutex or the output stream is one step; code that only touches        *)
(* thread-local data is merged into the neighbouring step.                 *)
(***************************************************************************)
EXTENDS Integers, Sequences, FiniteSets, TLC

\* ---------------------------------------------------------------- bounds
NumProducers == 2      \* producer threads
NumCtl       == 2      \* threads calling Start / Stop / SetLogFile
MainLogs     == 2      \* Log calls of the first producer when one thread controls
MainOps      == 4      \* Start / Stop / SetLogFile calls of that one thread
RaceOps      == 2      \* calls of each control thread when two of them race
LiveLogs     == 2      \* Log calls of the producer in the liveness check
LiveOps      == 2      \* calls of the first control thread in the liveness check
ArgLogs      == 2      \* Log calls of the producer that tries every argument
ArgOps       == 2      \* Start / Stop / SetLogFile calls while it does
CtorLogs     == 1      \* Log calls after each construction that is tried
CtorOps      == 1      \* Start / Stop / SetLogFile calls after it
FailLogs     == 2      \* Log calls of the producer when the environment fails
FailOps      == 2      \* calls of the first control thread when it does
MaxThreads   == 2      \* std::thread objects that can exist at once
MaxNodes     == 3      \* node addresses the allocator can hand out
MaxOpens     == 4      \* successful file opens over the whole run
MaxSpurious  == 1      \* spurious compare_exchange_weak failures

\* ------------------------------------------------------ program constants
Trace          == 0
Debug          == 1
Info           == 2
Error          == 3
SeverityNumber == 4
NULL           == 0
DefaultTimeout == 2

Producers == 1..NumProducers
Ctl       == 1..NumCtl
Workers   == 1..MaxThreads
Addr      == 1..MaxNodes
Handles   == 1..MaxOpens
Levels    == (Trace - 1)..SeverityNumber   \* arguments tried for Log's level
Timeouts  == (0 - 1)..1                    \* arguments tried for the timeout
FNames    == {"", "log"}                   \* arguments tried for SetLogFile

NoOwner   == <<"free", 0>>
CtlId(t)  == <<"ctl", t>>
WrkId(w)  == <<"wrk", w>>

NoRec    == [prod |-> 0, seq |-> 0, sev |-> 0]
FreeNode == [used |-> FALSE, val |-> NoRec, next |-> NULL, prev |-> NULL]

VARIABLES
    heap,              \* node storage: Addr -> node<T> (val, prev, next) or free
    head,              \* que::head
    shutdown,          \* Logger::shutdown
    current_level,     \* Logger::current_level (const after construction)
    current_timeout,   \* Logger::current_timeout (const after construction)
    born,              \* the constructor: "ctor" body not run yet, "alive", "threw"
    scn,               \* the scenario: how many calls each thread makes, with what arguments
    worker_mutex,      \* owner of Logger::worker_mutex
    worker,            \* Logger::worker (std::thread*), NULL or a thread object
    log_stream_mutex,  \* owner of Logger::log_stream_mutex
    log_stream,        \* Logger::log_stream, NULL or a stream handle
    handles,           \* state of every ofstream ever opened
    failed,            \* the ofstreams whose failbit is set
    out,               \* everything written so far, in order, with its target
    cerr,              \* number of reports on std::cerr, per kind
    ppc, pnode,        \* producers: position, node being pushed (p)
    cpc, ctmp, cfname, cret,   \* control threads: position, tmp, fname, return position
    wpc, wp, wtmp, wfinal,     \* thread objects: position, p, write's tmp, loop left
    winc,              \* history: which launch (1st, 2nd, ...) the thread object runs
    launches,          \* history: threads launched so far
    pushed,            \* history: the nodes pushed and not yet taken, oldest first
    wchain,            \* history: the nodes the thread's last takeAll took, oldest first
    wdone,             \* history: nodes of that chain written and released so far
    startSnap,         \* history: records in the que when the thread was launched,
                       \*          until its first drain pass is over
    stale,             \* history: head was changed by another thread since the
                       \*          producer last read it into p->next
    nCalls,            \* Log calls made so far, per producer
    ops,               \* Start / Stop / SetLogFile calls made so far, per thread
    spurious,          \* spurious CAS failures so far
    want,              \* history: records of the Log calls the contract accepts
    stopSnap,          \* history: records pushed when the thread's Stop began
    lastRet            \* history: how the thread's last call ended

vars == <<heap, head, shutdown, current_level, current_timeout, born, scn, worker_mutex, worker,
          log_stream_mutex, log_stream, handles, failed, out, cerr, ppc, pnode,
          cpc, ctmp, cfname, cret, wpc, wp, wtmp, wfinal, winc, launches,
          pushed, wchain, wdone, startSnap, stale, nCalls, ops,
          spurious, want, stopSnap, lastRet>>

constVars == <<current_level, current_timeout, scn>>
queVars  == <<heap, head>>
sinkVars == <<log_stream_mutex, log_stream, handles, failed, out>>
lifeVars == <<shutdown, worker_mutex, worker>>
prodVars == <<ppc, pnode, nCalls, want, stale, pushed>>
ctlVars  == <<cpc, ctmp, cfname, cret, ops, stopSnap, lastRet>>
passVars == <<wchain, wdone, startSnap>>
wrkVars  == <<wpc, wp, wtmp, wfinal, winc, launches, passVars>>

\* ----------------------------------------------------------- scenarios
\* one thread controls the logger, as main() of logger.cpp does, while the
\* producers log valid Info messages, as test_worker does
ScnMain ==
    [logs |-> [p \in Producers |-> IF p = 1 THEN MainLogs ELSE 1],
     ops |-> [t \in Ctl |-> IF t = 1 THEN MainOps ELSE 0],
     levels |-> {Info}, empties |-> {FALSE}, thresholds |-> {Trace}, timeouts |-> {0},
     fnames |-> {"log"}, opens |-> {TRUE}, nodes |-> MainLogs + 1,
     spurious |-> 0, wfails |-> {FALSE}, throws |-> {FALSE}]

\* every control thread calls Start / Stop / SetLogFile with every argument
\* and outcome of the open, one producer logs
ScnRace ==
    [logs |-> [p \in Producers |-> IF p = 1 THEN 1 ELSE 0],
     ops |-> [t \in Ctl |-> RaceOps],
     levels |-> {Info}, empties |-> {FALSE}, thresholds |-> {Trace}, timeouts |-> {0},
     fnames |-> FNames, opens |-> BOOLEAN, nodes |-> 1,
     spurious |-> 0, wfails |-> {FALSE}, throws |-> {FALSE}]

\* one producer tries every argument of Log against every threshold, with
\* spurious CAS failures, while one thread starts and stops the logger
ScnArgs ==
    [logs |-> [p \in Producers |-> IF p = 1 THEN ArgLogs ELSE 0],
     ops |-> [t \in Ctl |-> IF t = 1 THEN ArgOps ELSE 0],
     levels |-> Levels, empties |-> BOOLEAN, thresholds |-> Trace..Error, timeouts |-> {DefaultTimeout},
     fnames |-> {"log"}, opens |-> {TRUE}, nodes |-> ArgLogs,
     spurious |-> MaxSpurious, wfails |-> {FALSE}, throws |-> {FALSE}]

\* the liveness check: one producer logs twice, one thread starts and stops
\* the logger while the other makes one call
ScnLive ==
    [logs |-> [p \in Producers |-> IF p = 1 THEN LiveLogs ELSE 0],
     ops |-> [t \in Ctl |-> IF t = 1 THEN LiveOps ELSE 1],
     levels |-> {Info}, empties |-> {FALSE}, thresholds |-> {Trace}, timeouts |-> {0},
     fnames |-> {"log"}, opens |-> {TRUE}, nodes |-> LiveLogs,
     spurious |-> MaxSpurious, wfails |-> {FALSE}, throws |-> {FALSE}]

\* the constructor is tried with every level and timeout, in range or not;
\* the logger it builds is then used once
ScnCtor ==
    [logs |-> [p \in Producers |-> IF p = 1 THEN CtorLogs ELSE 0],
     ops |-> [t \in Ctl |-> IF t = 1 THEN CtorOps ELSE 0],
     levels |-> {Error}, empties |-> {FALSE}, thresholds |-> Levels,
     timeouts |-> Timeouts,
     fnames |-> {"log"}, opens |-> {TRUE}, nodes |-> CtorLogs,
     spurious |-> 0, wfails |-> {FALSE}, throws |-> {FALSE}]

\* the environment fails: a write to the file can fail and the lock of
\* log_stream_mutex can throw std::system_error, while one producer logs and
\* two threads control the logger
ScnFail ==
    [logs |-> [p \in Producers |-> IF p = 1 THEN FailLogs ELSE 0],
     ops |-> [t \in Ctl |-> IF t = 1 THEN FailOps ELSE 1],
     levels |-> {Info}, empties |-> {FALSE}, thresholds |-> {Trace},
     timeouts |-> {0},
     fnames |-> {"log"}, opens |-> {TRUE}, nodes |-> FailLogs,
     spurious |-> MaxSpurious, wfails |-> BOOLEAN, throws |-> BOOLEAN]

Scenarios == {ScnMain, ScnRace, ScnArgs, ScnCtor}

\* ------------------------------------------------------------- helpers
\* the addresses operator new can return: the scenario never has more than
\* scn.nodes nodes alive, and that many addresses allow every reuse
FreeAddrs == {a \in Addr : a <= scn.nodes /\ ~heap[a].used}

\* records held by nodes that are linked into the que or owned by a drain pass
PendingNodes == {pnode[p] : p \in Producers} \ {NULL}
QueuedRecs == {heap[a].val : a \in {b \in Addr : heap[b].used} \ PendingNodes}
Lines      == SelectSeq(out, LAMBDA e : e.part = "nl")
WrittenRecs == {Lines[i].rec : i \in 1..Len(Lines)}
\* records whose Log call has returned after a successful push
Accepted   == QueuedRecs \cup WrittenRecs

TimesWritten(r) == Cardinality({i \in 1..Len(Lines) : Lines[i].rec = r})

\* ================================================================ Init
\* the state after construction, in one of the scenarios S
InitIn(S) ==
    /\ heap = [a \in Addr |-> FreeNode]
    /\ head = NULL
    /\ shutdown = FALSE
    /\ scn \in S
    /\ current_level \in scn.thresholds
    /\ current_timeout \in scn.timeouts
    /\ born = "ctor"
    /\ worker_mutex = NoOwner
    /\ worker = NULL
    /\ log_stream_mutex = NoOwner
    /\ log_stream = NULL
    /\ handles = [h \in Handles |-> "unused"]
    /\ out = <<>>
    /\ failed = {}
    /\ cerr = [log |-> 0, open |-> 0, thread |-> 0]
    /\ ppc = [p \in Producers |-> "idle"]
    /\ pnode = [p \in Producers |-> NULL]
    /\ cpc = [t \in Ctl |-> "idle"]
    /\ ctmp = [t \in Ctl |-> NULL]
    /\ cfname = [t \in Ctl |-> ""]
    /\ cret = [t \in Ctl |-> "idle"]
    /\ wpc = [w \in Workers |-> "unborn"]
    /\ wp = [w \in Workers |-> NULL]
    /\ wtmp = [w \in Workers |-> NULL]
    /\ wfinal = [w \in Workers |-> FALSE]
    /\ winc = [w \in Workers |-> 0]
    /\ launches = 0
    /\ stale = [p \in Producers |-> FALSE]
    /\ pushed = <<>>
    /\ wchain = [w \in Workers |-> <<>>]
    /\ wdone = [w \in Workers |-> 0]
    /\ startSnap = [w \in Workers |-> {}]
    /\ nCalls = [p \in Producers |-> 0]
    /\ ops = [t \in Ctl |-> 0]
    /\ spurious = 0
    /\ want = {}
    /\ stopSnap = [t \in Ctl |-> {}]
    /\ lastRet = [t \in Ctl |-> "none"]

Init == InitIn(Scenarios)

\* ========================================================== constructor
\* mutant: the timeout is not tested
Logger_ctor_anyTimeout ==
    /\ born = "ctor"
    /\ born' = IF current_level < Trace \/ Error < current_level
               THEN "threw" ELSE "alive"
    /\ UNCHANGED <<queVars, lifeVars, constVars, sinkVars, cerr,
                   prodVars, ctlVars, wrkVars, spurious>>

\* Logger::Logger(timeout, level), lines 277-280: the body of the constructor,
\* after the member initializers have stored the arguments
Logger_ctor ==
    /\ born = "ctor"
    /\ born' = IF current_level < Trace \/ Error < current_level
               THEN "threw"
               ELSE IF current_timeout < 0 THEN "threw" ELSE "alive"
    /\ UNCHANGED <<queVars, lifeVars, constVars, sinkVars, cerr,
                   prodVars, ctlVars, wrkVars, spurious>>

\* ============================================================ producers
\* que::push, lines 65-67: allocate the node, store the value, read head
push_new(p, rec) ==
    \E a \in FreeAddrs :
        /\ heap' = [heap EXCEPT ![a] = [used |-> TRUE, val |-> rec,
                                        next |-> head, prev |-> NULL]]
        /\ pnode' = [pnode EXCEPT ![p] = a]
        /\ ppc' = [ppc EXCEPT ![p] = "push_cas"]

\* what section 4.4 of the contract accepts (history only)
Acceptable(level, empty) ==
    /\ level \in Trace..Error
    /\ ~empty
    /\ level >= current_level

\* mutant: the threshold test is "level > current_level"
Log_above(p, level, empty) ==
    /\ born = "alive"
    /\ ppc[p] = "idle"
    /\ nCalls[p] < scn.logs[p]
    /\ level \in scn.levels
    /\ empty \in scn.empties
    /\ nCalls' = [nCalls EXCEPT ![p] = @ + 1]
    /\ LET rec == [prod |-> p, seq |-> nCalls[p] + 1, sev |-> level]
       IN /\ want' = IF Acceptable(level, empty) THEN want \cup {rec} ELSE want
          /\ IF level < Trace \/ Error < level \/ empty
             THEN /\ cerr' = [cerr EXCEPT !.log = @ + 1]
                  /\ UNCHANGED <<heap, pnode, ppc>>
             ELSE /\ IF level > current_level
                     THEN /\ FreeAddrs # {}
                          /\ push_new(p, rec)
                     ELSE UNCHANGED <<heap, pnode, ppc>>
                  /\ UNCHANGED cerr
    /\ stale' = [stale EXCEPT ![p] = FALSE]
    /\ UNCHANGED <<head, shutdown, constVars, born, worker_mutex, worker,
                   sinkVars, ctlVars, wrkVars, spurious,
                   pushed>>

\* mutant: the sanity check reports but does not return
Log_noReturn(p, level, empty) ==
    /\ born = "alive"
    /\ ppc[p] = "idle"
    /\ nCalls[p] < scn.logs[p]
    /\ level \in scn.levels
    /\ empty \in scn.empties
    /\ nCalls' = [nCalls EXCEPT ![p] = @ + 1]
    /\ LET rec == [prod |-> p, seq |-> nCalls[p] + 1, sev |-> level]
       IN /\ want' = IF Acceptable(level, empty) THEN want \cup {rec} ELSE want
          /\ cerr' = IF level < Trace \/ Error < level \/ empty
                     THEN [cerr EXCEPT !.log = @ + 1] ELSE cerr
          /\ IF level >= current_level
             THEN /\ FreeAddrs # {}
                  /\ push_new(p, rec)
             ELSE UNCHANGED <<heap, pnode, ppc>>
    /\ stale' = [stale EXCEPT ![p] = FALSE]
    /\ UNCHANGED <<head, shutdown, constVars, born, worker_mutex, worker,
                   sinkVars, ctlVars, wrkVars, spurious,
                   pushed>>

\* Logger::Log
Log(p, level, empty) ==
    /\ born = "alive"
    /\ ppc[p] = "idle"
    /\ nCalls[p] < scn.logs[p]
    /\ level \in scn.levels
    /\ empty \in scn.empties
    /\ nCalls' = [nCalls EXCEPT ![p] = @ + 1]
    /\ LET rec == [prod |-> p, seq |-> nCalls[p] + 1, sev |-> level]
       IN /\ want' = IF Acceptable(level, empty) THEN want \cup {rec} ELSE want
          /\ IF level < Trace \/ Error < level \/ empty
             THEN /\ cerr' = [cerr EXCEPT !.log = @ + 1]
                  /\ UNCHANGED <<heap, pnode, ppc>>
             ELSE /\ IF level >= current_level
                     THEN /\ FreeAddrs # {}
                          /\ push_new(p, rec)
                     ELSE UNCHANGED <<heap, pnode, ppc>>
                  /\ UNCHANGED cerr
    /\ stale' = [stale EXCEPT ![p] = FALSE]
    /\ UNCHANGED <<head, shutdown, constVars, born, worker_mutex, worker,
                   sinkVars, ctlVars, wrkVars, spurious,
                   pushed>>

\* history: thread "me" has just changed head
Staled(me) == [q \in Producers |-> IF q # me /\ ppc[q] = "push_cas"
                                   THEN TRUE ELSE FALSE]

\* mutant: push waits until nobody holds log_stream_mutex
push_cas_ok_locked(p) ==
    /\ ppc[p] = "push_cas"
    /\ log_stream_mutex = NoOwner
    /\ head = heap[pnode[p]].next
    /\ head' = pnode[p]
    /\ pushed' = Append(pushed, [a |-> pnode[p], rec |-> heap[pnode[p]].val])
    /\ ppc' = [ppc EXCEPT ![p] = "idle"]
    /\ pnode' = [pnode EXCEPT ![p] = NULL]
    /\ stale' = [q \in Producers |-> stale[q] \/ Staled(p)[q]]
    /\ UNCHANGED <<heap, shutdown, constVars, born, worker_mutex, worker,
                   sinkVars, cerr, nCalls, want, ctlVars, wrkVars, spurious>>

\* que::push, line 69: the compare_exchange_weak succeeds
push_cas_ok(p) ==
    /\ ppc[p] = "push_cas"
    /\ head = heap[pnode[p]].next
    /\ head' = pnode[p]
    /\ pushed' = Append(pushed, [a |-> pnode[p], rec |-> heap[pnode[p]].val])
    /\ ppc' = [ppc EXCEPT ![p] = "idle"]
    /\ pnode' = [pnode EXCEPT ![p] = NULL]
    /\ stale' = [q \in Producers |-> stale[q] \/ Staled(p)[q]]
    /\ UNCHANGED <<heap, shutdown, constVars, born, worker_mutex, worker,
                   sinkVars, cerr, nCalls, want, ctlVars, wrkVars, spurious>>

\* que::push, line 69: head differs from p->next; p->next is reloaded
push_cas_fail(p) ==
    /\ ppc[p] = "push_cas"
    /\ head # heap[pnode[p]].next
    /\ heap' = [heap EXCEPT ![pnode[p]].next = head]
    /\ stale' = [stale EXCEPT ![p] = FALSE]
    /\ UNCHANGED <<head, shutdown, constVars, born, worker_mutex, worker,
                   sinkVars, cerr, ppc, pnode, nCalls, want, ctlVars, wrkVars,
                   spurious,
                   pushed>>

\* que::push, line 69: the weak compare-exchange fails although head = p->next
push_cas_spurious(p) ==
    /\ ppc[p] = "push_cas"
    /\ head = heap[pnode[p]].next
    /\ spurious < scn.spurious
    /\ spurious' = spurious + 1
    /\ UNCHANGED <<queVars, shutdown, constVars, born, worker_mutex, worker,
                   sinkVars, cerr, prodVars, ctlVars, wrkVars>>


\* ============================================= background thread object
\* history: the drain pass of thread w is over
PassOver(w) ==
    /\ wchain' = [wchain EXCEPT ![w] = <<>>]
    /\ wdone' = [wdone EXCEPT ![w] = 0]
    /\ startSnap' = [startSnap EXCEPT ![w] = {}]

\* where a drain pass goes when it is over: back to the loop test, or,
\* after the loop was left, to the end of get_it_done
AfterPass(w) == IF wfinal[w] THEN "done" ELSE "loop"

\* mutant: no drain pass after the loop
get_it_done_test_nofinal(w) ==
    /\ wpc[w] = "loop"
    /\ IF shutdown = FALSE
       THEN /\ wpc' = [wpc EXCEPT ![w] = "sleep"]
            /\ UNCHANGED wfinal
       ELSE /\ wpc' = [wpc EXCEPT ![w] = "done"]
            /\ wfinal' = [wfinal EXCEPT ![w] = TRUE]
    /\ UNCHANGED <<queVars, lifeVars, constVars, born, sinkVars, cerr,
                   prodVars, ctlVars, wp, wtmp, winc, launches, spurious,
                   passVars>>

\* get_it_done, line 232: the loop test reads shutdown
get_it_done_test(w) ==
    /\ wpc[w] = "loop"
    /\ IF shutdown = FALSE
       THEN /\ wpc' = [wpc EXCEPT ![w] = "sleep"]
            /\ UNCHANGED wfinal
       ELSE /\ wpc' = [wpc EXCEPT ![w] = "take_load"]
            /\ wfinal' = [wfinal EXCEPT ![w] = TRUE]
    /\ UNCHANGED <<queVars, lifeVars, constVars, born, sinkVars, cerr,
                   prodVars, ctlVars, wp, wtmp, winc, launches, spurious,
                   passVars>>

\* get_it_done, line 233: sleep_for(current_timeout) ends
get_it_done_sleep(w) ==
    /\ wpc[w] = "sleep"
    /\ wpc' = [wpc EXCEPT ![w] = "take_load"]
    /\ UNCHANGED <<queVars, lifeVars, constVars, born, sinkVars, cerr,
                   prodVars, ctlVars, wp, wtmp, wfinal, winc, launches, spurious,
                   passVars>>

\* que::dump_que, line 78: p = head.load()
que_dump_load(w) ==
    /\ wpc[w] = "take_load"
    /\ wp' = [wp EXCEPT ![w] = head]
    /\ wpc' = [wpc EXCEPT ![w] = "take_cas"]
    /\ UNCHANGED <<queVars, lifeVars, constVars, born, sinkVars, cerr,
                   prodVars, ctlVars, wtmp, wfinal, winc, launches, spurious,
                   passVars>>

\* mutant: the chain is returned but head keeps pointing to it
que_dump_cas_ok_keep(w) ==
    /\ wpc[w] = "take_cas"
    /\ head = wp[w]
    /\ wchain' = [wchain EXCEPT ![w] = pushed]
    /\ wdone' = [wdone EXCEPT ![w] = 0]
    /\ wpc' = [wpc EXCEPT ![w] = "dump"]
    /\ UNCHANGED <<heap, head, lifeVars, constVars, born, sinkVars, cerr,
                   prodVars, ctlVars, wp, wtmp, wfinal, winc,
                   launches, spurious, startSnap>>

\* que::dump_que, line 79: compare_exchange_weak(p, nullptr) succeeds
que_dump_cas_ok(w) ==
    /\ wpc[w] = "take_cas"
    /\ head = wp[w]
    /\ head' = NULL
    /\ pushed' = <<>>
    /\ wchain' = [wchain EXCEPT ![w] = pushed]
    /\ wdone' = [wdone EXCEPT ![w] = 0]
    /\ wpc' = [wpc EXCEPT ![w] = "dump"]
    /\ stale' = IF head # NULL
                THEN [q \in Producers |-> stale[q] \/ Staled(0)[q]]
                ELSE stale
    /\ UNCHANGED <<heap, lifeVars, constVars, born, sinkVars, cerr,
                   ppc, pnode, nCalls, want, ctlVars, wp, wtmp, wfinal, winc,
                   launches, spurious,
                   startSnap>>

\* que::dump_que, line 79: head has changed; p is reloaded
que_dump_cas_fail(w) ==
    /\ wpc[w] = "take_cas"
    /\ head # wp[w]
    /\ wp' = [wp EXCEPT ![w] = head]
    /\ UNCHANGED <<queVars, lifeVars, constVars, born, sinkVars, cerr,
                   prodVars, ctlVars, wpc, wtmp, wfinal, winc, launches, spurious,
                   passVars>>

\* que::dump_que, line 79: the weak compare-exchange fails although head = p
que_dump_cas_spurious(w) ==
    /\ wpc[w] = "take_cas"
    /\ head = wp[w]
    /\ spurious < scn.spurious
    /\ spurious' = spurious + 1
    /\ UNCHANGED <<queVars, lifeVars, constVars, born, sinkVars, cerr,
                   prodVars, ctlVars, wrkVars>>

\* mutant: the chain is walked from its head, newest first
get_tail_lifo(h, p) ==
    <<[a \in Addr |-> [h[a] EXCEPT !.prev = h[a].next]], p>>

\* Logger::get_tail: sets the prev pointers along the chain, returns the
\* storage after the walk and the last node
RECURSIVE get_tail(_, _)
get_tail(h, p) ==
    IF h[p].next # NULL
    THEN get_tail([h EXCEPT ![h[p].next].prev = p], h[p].next)
    ELSE <<h, p>>

\* Logger::dump_que, lines 209-210: the null test and the call of get_tail
dump_que_tail(w) ==
    /\ wpc[w] = "dump"
    /\ IF wp[w] # NULL
       THEN LET r == get_tail(heap, wp[w])
            IN /\ heap' = r[1]
               /\ wp' = [wp EXCEPT ![w] = r[2]]
               /\ wpc' = [wpc EXCEPT ![w] = "lock"]
               /\ UNCHANGED passVars
       ELSE /\ wpc' = [wpc EXCEPT ![w] = AfterPass(w)]
            /\ PassOver(w)
            /\ UNCHANGED <<heap, wp>>
    /\ UNCHANGED <<head, lifeVars, constVars, born, sinkVars, cerr,
                   prodVars, ctlVars, wtmp, wfinal, winc, launches, spurious>>

\* Logger::dump_que, line 213: lock_guard on log_stream_mutex
\* when std::mutex::lock throws, the exception leaves dump_que and the loop
\* of get_it_done and is caught at lines 247-254: the thread function ends
\* and the nodes of the chain are never released
dump_que_lock(w, throws) ==
    /\ wpc[w] = "lock"
    /\ throws \in scn.throws
    /\ IF throws
       THEN /\ cerr' = [cerr EXCEPT !.thread = @ + 1]
            /\ wpc' = [wpc EXCEPT ![w] = "done"]
            /\ wp' = [wp EXCEPT ![w] = NULL]
            /\ PassOver(w)
            /\ UNCHANGED log_stream_mutex
       ELSE /\ log_stream_mutex = NoOwner
            /\ log_stream_mutex' = WrkId(w)
            /\ wpc' = [wpc EXCEPT ![w] = "w_copy"]
            /\ UNCHANGED <<cerr, wp, passVars>>
    /\ UNCHANGED <<queVars, lifeVars, constVars, born, log_stream, handles, failed, out,
                   prodVars, ctlVars, wtmp, wfinal, winc, launches, spurious>>

\* the stream a line goes to: the file behind tmp when tmp is set and open,
\* std::cout (NULL) otherwise (Logger::write, lines 188-195)
Target(tmp) == IF tmp # NULL /\ handles[tmp] = "open" THEN tmp ELSE NULL

\* Logger::write, line 187: tmp(log_stream)
write_copy(w) ==
    /\ wpc[w] = "w_copy"
    /\ wtmp' = [wtmp EXCEPT ![w] = log_stream]
    /\ wpc' = [wpc EXCEPT ![w] = "w_msg"]
    /\ UNCHANGED <<queVars, lifeVars, constVars, born, sinkVars, cerr,
                   prodVars, ctlVars, wp, wfinal, winc, launches, spurious,
                   passVars>>

\* the ofstream behind tmp takes no more output: its failbit is set
Bad(tmp) == Target(tmp) # NULL /\ tmp \in failed

\* Logger::write, lines 188-194: the test of tmp and "<< msg"; a write to the
\* file that fails sets the failbit of the stream and throws nothing (the
\* exception mask of the stream is empty), and nothing is written to a stream
\* whose failbit is set
write_msg(w, fails) ==
    /\ wpc[w] = "w_msg"
    /\ fails \in scn.wfails
    /\ fails => Target(wtmp[w]) # NULL
    /\ IF fails \/ Bad(wtmp[w])
       THEN /\ failed' = failed \cup {wtmp[w]}
            /\ UNCHANGED out
       ELSE /\ out' = Append(out, [rec |-> heap[wp[w]].val,
                                   dest |-> Target(wtmp[w]),
                                   part |-> "msg", cur |-> Target(log_stream),
                                   by |-> winc[w]])
            /\ UNCHANGED failed
    /\ wpc' = [wpc EXCEPT ![w] = "w_endl"]
    /\ UNCHANGED <<queVars, lifeVars, constVars, born, log_stream_mutex,
                   log_stream, handles, cerr, prodVars, ctlVars, wp, wtmp,
                   wfinal, winc, launches, spurious,
                   passVars>>

\* mutant: the deleter does not close the stream
log_file_closer_noClose(hs, h) == hs

\* log_file_closer, the deleter of the shared_ptr: flushes and closes the
\* stream when it is open and deletes it; run on a stream that was deleted
\* already it deletes it a second time
log_file_closer(hs, h) ==
    IF h = NULL THEN hs
    ELSE IF hs[h] = "open" THEN [hs EXCEPT ![h] = "closed"]
         ELSE IF hs[h] = "closed" THEN [hs EXCEPT ![h] = "twice"] ELSE hs

\* the streams the tmp copies of Logger::write refer to
TmpRefs(ws) == {wtmp[w] : w \in ws} \ {NULL}

\* a shared_ptr that refers to h is destroyed: the deleter runs when no other
\* shared_ptr (those in refs) refers to h
Drop(hs, h, refs) == IF h \in refs THEN hs ELSE log_file_closer(hs, h)

\* mutant: the node is not deleted after its write
write_endl_leak(w) ==
    /\ wpc[w] = "w_endl"
    /\ out' = IF Bad(wtmp[w])
              THEN out
              ELSE Append(out, [rec |-> heap[wp[w]].val,
                                dest |-> Target(wtmp[w]),
                                part |-> "nl", cur |-> Target(log_stream),
                                by |-> winc[w]])
    /\ handles' = Drop(handles, wtmp[w],
                       {log_stream} \cup TmpRefs(Workers \ {w}))
    /\ wtmp' = [wtmp EXCEPT ![w] = NULL]
    /\ wdone' = [wdone EXCEPT ![w] = @ + 1]
    /\ wp' = [wp EXCEPT ![w] = heap[wp[w]].prev]
    /\ heap' = heap
    /\ wpc' = [wpc EXCEPT ![w] = IF heap[wp[w]].prev # NULL
                                 THEN "w_copy" ELSE "unlock"]
    /\ UNCHANGED <<head, lifeVars, constVars, born, log_stream_mutex,
                   log_stream, failed, cerr, prodVars, ctlVars, wfinal, winc,
                   launches, spurious,
                   wchain, startSnap>>

\* Logger::write, lines 189/194: "<< std::endl", then tmp goes out of scope;
\* Logger::dump_que, lines 216-220: p = p->prev and delete of the node
write_endl(w) ==
    /\ wpc[w] = "w_endl"
    /\ out' = IF Bad(wtmp[w])
              THEN out
              ELSE Append(out, [rec |-> heap[wp[w]].val,
                                dest |-> Target(wtmp[w]),
                                part |-> "nl", cur |-> Target(log_stream),
                                by |-> winc[w]])
    /\ handles' = Drop(handles, wtmp[w],
                       {log_stream} \cup TmpRefs(Workers \ {w}))
    /\ wtmp' = [wtmp EXCEPT ![w] = NULL]
    /\ wdone' = [wdone EXCEPT ![w] = @ + 1]
    /\ wp' = [wp EXCEPT ![w] = heap[wp[w]].prev]
    /\ heap' = [heap EXCEPT ![wp[w]] = FreeNode]
    /\ wpc' = [wpc EXCEPT ![w] = IF heap[wp[w]].prev # NULL
                                 THEN "w_copy" ELSE "unlock"]
    /\ UNCHANGED <<head, lifeVars, constVars, born, log_stream_mutex,
                   log_stream, failed, cerr, prodVars, ctlVars, wfinal, winc,
                   launches, spurious,
                   wchain, startSnap>>

\* Logger::dump_que, line 222: the lock_guard releases log_stream_mutex
dump_que_unlock(w) ==
    /\ wpc[w] = "unlock"
    /\ log_stream_mutex' = NoOwner
    /\ PassOver(w)
    /\ wpc' = [wpc EXCEPT ![w] = AfterPass(w)]
    /\ UNCHANGED <<queVars, lifeVars, constVars, born, log_stream, handles, failed, out,
                   cerr, prodVars, ctlVars, wp, wtmp, wfinal, winc, launches, spurious>>

\* ======================================================= control threads
\* a control thread may begin another call
CanCall(t) == born = "alive" /\ cpc[t] = "idle" /\ ops[t] < scn.ops[t]

\* the call returns to its caller
Return(t, how) ==
    /\ cpc' = [cpc EXCEPT ![t] = "idle"]
    /\ ctmp' = [ctmp EXCEPT ![t] = NULL]
    /\ lastRet' = [lastRet EXCEPT ![t] = how]

\* ---------------------------------------------------- Logger::SetLogFile
\* the call SetLogFile(fname) from outside the class
SetLogFile(t, fname) ==
    /\ CanCall(t)
    /\ fname \in scn.fnames
    /\ ops' = [ops EXCEPT ![t] = @ + 1]
    /\ cpc' = [cpc EXCEPT ![t] = "set_lock"]
    /\ cfname' = [cfname EXCEPT ![t] = fname]
    /\ cret' = [cret EXCEPT ![t] = "idle"]
    /\ lastRet' = [lastRet EXCEPT ![t] = "none"]
    /\ stopSnap' = [stopSnap EXCEPT ![t] = {}]
    /\ UNCHANGED <<queVars, lifeVars, constVars, born, sinkVars, cerr,
                   prodVars, ctmp, wrkVars, spurious>>

\* mutant: SetLogFile does not take log_stream_mutex
SetLogFile_lock_none(t) ==
    /\ cpc[t] = "set_lock"
    /\ cpc' = [cpc EXCEPT ![t] = "set_body"]
    /\ UNCHANGED <<queVars, lifeVars, constVars, born, sinkVars,
                   cerr, prodVars, ctmp, cfname, cret, ops, stopSnap, lastRet,
                   wrkVars, spurious>>

\* SetLogFile, line 289: lock_guard on log_stream_mutex
SetLogFile_lock(t) ==
    /\ cpc[t] = "set_lock"
    /\ log_stream_mutex = NoOwner
    /\ log_stream_mutex' = CtlId(t)
    /\ cpc' = [cpc EXCEPT ![t] = "set_body"]
    /\ UNCHANGED <<queVars, lifeVars, constVars, born, log_stream, handles, failed, out,
                   cerr, prodVars, ctmp, cfname, cret, ops, stopSnap, lastRet,
                   wrkVars, spurious>>

UnusedHandles == {h \in Handles : handles[h] = "unused"}

\* mutant: the stream is swapped in without the is_open test
SetLogFile_body_noTest(t, opened) ==
    /\ cpc[t] = "set_body"
    /\ opened \in scn.opens
    /\ IF cfname[t] = ""
       THEN /\ log_stream' = NULL
            /\ handles' = Drop(handles, log_stream, TmpRefs(Workers))
            /\ UNCHANGED cerr
       ELSE IF opened /\ UnusedHandles # {}
            THEN /\ LET h == CHOOSE x \in UnusedHandles :
                                 \A y \in UnusedHandles : x <= y
                    IN /\ log_stream' = h
                       /\ handles' = Drop([handles EXCEPT ![h] = "open"],
                                        log_stream, TmpRefs(Workers))
                 /\ UNCHANGED cerr
            ELSE /\ log_stream' = NULL
                 /\ handles' = Drop(handles, log_stream, TmpRefs(Workers))
                 /\ UNCHANGED cerr
    /\ cpc' = [cpc EXCEPT ![t] = "set_unlock"]
    /\ UNCHANGED <<queVars, lifeVars, constVars, born, log_stream_mutex, failed, out,
                   prodVars, ctmp, cfname, cret, ops, stopSnap, lastRet,
                   wrkVars, spurious>>

\* SetLogFile, lines 291-304: clear the stream, or open fname and swap it in;
\* the shared_ptr that leaves scope runs log_file_closer on what it holds
SetLogFile_body(t, opened) ==
    /\ cpc[t] = "set_body"
    /\ opened \in scn.opens
    /\ IF cfname[t] = ""
       THEN /\ log_stream' = NULL
            /\ handles' = Drop(handles, log_stream, TmpRefs(Workers))
            /\ UNCHANGED cerr
       ELSE IF opened /\ UnusedHandles # {}
            THEN /\ LET h == CHOOSE x \in UnusedHandles :
                                 \A y \in UnusedHandles : x <= y
                    IN /\ log_stream' = h
                       /\ handles' = Drop([handles EXCEPT ![h] = "open"],
                                        log_stream, TmpRefs(Workers))
                 /\ UNCHANGED cerr
            ELSE /\ cerr' = [cerr EXCEPT !.open = @ + 1]
                 /\ UNCHANGED <<log_stream, handles>>
    /\ cpc' = [cpc EXCEPT ![t] = "set_unlock"]
    /\ UNCHANGED <<queVars, lifeVars, constVars, born, log_stream_mutex, failed, out,
                   prodVars, ctmp, cfname, cret, ops, stopSnap, lastRet,
                   wrkVars, spurious>>

\* SetLogFile, line 305: the lock_guard releases log_stream_mutex; return
SetLogFile_unlock(t) ==
    /\ cpc[t] = "set_unlock"
    /\ log_stream_mutex' = NoOwner
    /\ IF cret[t] = "idle"
       THEN Return(t, "set")
       ELSE /\ cpc' = [cpc EXCEPT ![t] = cret[t]]
            /\ UNCHANGED <<ctmp, lastRet>>
    /\ UNCHANGED <<queVars, lifeVars, constVars, born, log_stream, handles, failed, out,
                   cerr, prodVars, cfname, cret, ops, stopSnap, wrkVars, spurious>>

\* ----------------------------------------- Logger::StartBackGroundThread
\* mutant: shutdown is cleared before the first test
StartBackGroundThread_clear(t) ==
    /\ CanCall(t)
    /\ ops' = [ops EXCEPT ![t] = @ + 1]
    /\ shutdown' = FALSE
    /\ IF worker = NULL
       THEN /\ cpc' = [cpc EXCEPT ![t] = "start_lock"]
            /\ ctmp' = [ctmp EXCEPT ![t] = worker]
            /\ lastRet' = [lastRet EXCEPT ![t] = "none"]
       ELSE Return(t, "start_noop")
    /\ stopSnap' = [stopSnap EXCEPT ![t] = {}]
    /\ UNCHANGED <<queVars, worker_mutex, worker, constVars, born, sinkVars, cerr,
                   prodVars, cfname, cret, wrkVars, spurious>>

\* lines 311-312: tmp = worker.load() and the first test
StartBackGroundThread(t) ==
    /\ CanCall(t)
    /\ ops' = [ops EXCEPT ![t] = @ + 1]
    /\ IF worker = NULL
       THEN /\ cpc' = [cpc EXCEPT ![t] = "start_lock"]
            /\ ctmp' = [ctmp EXCEPT ![t] = worker]
            /\ lastRet' = [lastRet EXCEPT ![t] = "none"]
       ELSE Return(t, "start_noop")
    /\ stopSnap' = [stopSnap EXCEPT ![t] = {}]
    /\ UNCHANGED <<queVars, lifeVars, constVars, born, sinkVars, cerr,
                   prodVars, cfname, cret, wrkVars, spurious>>

\* line 313: lock_guard on worker_mutex
Start_lock(t) ==
    /\ cpc[t] = "start_lock"
    /\ worker_mutex = NoOwner
    /\ worker_mutex' = CtlId(t)
    /\ cpc' = [cpc EXCEPT ![t] = "start_load"]
    /\ UNCHANGED <<queVars, shutdown, worker, constVars, born, sinkVars, cerr,
                   prodVars, ctmp, cfname, cret, ops, stopSnap, lastRet,
                   wrkVars, spurious>>

\* mutant: no second test under the lock
Start_load_nocheck(t) ==
    /\ cpc[t] = "start_load"
    /\ ctmp' = [ctmp EXCEPT ![t] = worker]
    /\ cpc' = [cpc EXCEPT ![t] = "start_xchg"]
    /\ UNCHANGED <<queVars, lifeVars, constVars, born, sinkVars, cerr,
                   prodVars, cfname, cret, ops, stopSnap, lastRet,
                   wrkVars, spurious>>

\* lines 314-315: tmp = worker.load() and the second test
Start_load(t) ==
    /\ cpc[t] = "start_load"
    /\ ctmp' = [ctmp EXCEPT ![t] = worker]
    /\ cpc' = [cpc EXCEPT ![t] = IF worker = NULL THEN "start_xchg"
                                 ELSE "start_unlock"]
    /\ UNCHANGED <<queVars, lifeVars, constVars, born, sinkVars, cerr,
                   prodVars, cfname, cret, ops, stopSnap, lastRet,
                   wrkVars, spurious>>

\* mutant: Start does not clear shutdown
Start_xchg_skip(t) ==
    /\ cpc[t] = "start_xchg"
    /\ cpc' = [cpc EXCEPT ![t] = "start_new"]
    /\ UNCHANGED <<queVars, lifeVars, constVars, born, sinkVars,
                   cerr, prodVars, ctmp, cfname, cret, ops, stopSnap, lastRet,
                   wrkVars, spurious>>

\* line 316: shutdown.exchange(false)
Start_xchg(t) ==
    /\ cpc[t] = "start_xchg"
    /\ shutdown' = FALSE
    /\ cpc' = [cpc EXCEPT ![t] = "start_new"]
    /\ UNCHANGED <<queVars, worker_mutex, worker, constVars, born, sinkVars,
                   cerr, prodVars, ctmp, cfname, cret, ops, stopSnap, lastRet,
                   wrkVars, spurious>>

UnbornThreads == {w \in Workers : wpc[w] = "unborn"}

\* line 317: tmp = new std::thread(get_it_done, this)
Start_new(t) ==
    /\ cpc[t] = "start_new"
    /\ UnbornThreads # {}
    /\ LET w == CHOOSE x \in UnbornThreads : \A y \in UnbornThreads : x <= y
       IN /\ ctmp' = [ctmp EXCEPT ![t] = w]
          /\ wpc' = [wpc EXCEPT ![w] = "loop"]
          /\ winc' = [winc EXCEPT ![w] = launches + 1]
          /\ startSnap' = [startSnap EXCEPT ![w] =
                              {pushed[i].rec : i \in 1..Len(pushed)}]
    /\ launches' = launches + 1
    /\ cpc' = [cpc EXCEPT ![t] = "start_store"]
    /\ lastRet' = [lastRet EXCEPT ![t] = "launching"]
    /\ UNCHANGED <<queVars, lifeVars, constVars, born, sinkVars, cerr,
                   prodVars, cfname, cret, ops, stopSnap,
                   wp, wtmp, wfinal, spurious,
                   wchain, wdone>>

\* line 318: worker.store(tmp)
Start_store(t) ==
    /\ cpc[t] = "start_store"
    /\ worker' = ctmp[t]
    /\ cpc' = [cpc EXCEPT ![t] = "start_unlock"]
    /\ UNCHANGED <<queVars, shutdown, worker_mutex, constVars, born, sinkVars,
                   cerr, prodVars, ctmp, cfname, cret, ops, stopSnap, lastRet,
                   wrkVars, spurious>>

\* line 320: the lock_guard releases worker_mutex; return
Start_unlock(t) ==
    /\ cpc[t] = "start_unlock"
    /\ worker_mutex' = NoOwner
    /\ Return(t, IF lastRet[t] = "launching" THEN "start" ELSE "start_noop")
    /\ UNCHANGED <<queVars, shutdown, worker, constVars, born, sinkVars, cerr,
                   prodVars, cfname, cret, ops, stopSnap, wrkVars, spurious>>

\* ---------------------------------------------------- Logger::ExitLogger
\* lines 324-325: tmp = worker.load() and the first test
ExitLogger(t) ==
    /\ CanCall(t)
    /\ ops' = [ops EXCEPT ![t] = @ + 1]
    /\ stopSnap' = [stopSnap EXCEPT ![t] = Accepted]
    /\ IF worker # NULL
       THEN /\ cpc' = [cpc EXCEPT ![t] = "stop_lock"]
            /\ ctmp' = [ctmp EXCEPT ![t] = worker]
            /\ lastRet' = [lastRet EXCEPT ![t] = "none"]
       ELSE Return(t, "stop_noop")
    /\ UNCHANGED <<queVars, lifeVars, constVars, born, sinkVars, cerr,
                   prodVars, cfname, cret, wrkVars, spurious>>

\* line 326: lock_guard on worker_mutex
Exit_lock(t) ==
    /\ cpc[t] = "stop_lock"
    /\ worker_mutex = NoOwner
    /\ worker_mutex' = CtlId(t)
    /\ cpc' = [cpc EXCEPT ![t] = "stop_load"]
    /\ UNCHANGED <<queVars, shutdown, worker, constVars, born, sinkVars, cerr,
                   prodVars, ctmp, cfname, cret, ops, stopSnap, lastRet,
                   wrkVars, spurious>>

\* lines 327-328: tmp = worker.load() and the second test
Exit_load(t) ==
    /\ cpc[t] = "stop_load"
    /\ ctmp' = [ctmp EXCEPT ![t] = worker]
    /\ cpc' = [cpc EXCEPT ![t] = IF worker # NULL THEN "stop_xchg"
                                 ELSE "stop_unlock"]
    /\ UNCHANGED <<queVars, lifeVars, constVars, born, sinkVars, cerr,
                   prodVars, cfname, cret, ops, stopSnap, lastRet,
                   wrkVars, spurious>>

\* mutant: Stop does not set shutdown
Exit_xchg_forget(t) ==
    /\ cpc[t] = "stop_xchg"
    /\ cpc' = [cpc EXCEPT ![t] = "stop_join"]
    /\ UNCHANGED <<queVars, lifeVars, constVars, born, sinkVars,
                   cerr, prodVars, ctmp, cfname, cret, ops, stopSnap, lastRet,
                   wrkVars, spurious>>

\* line 329: shutdown.exchange(true)
Exit_xchg(t) ==
    /\ cpc[t] = "stop_xchg"
    /\ shutdown' = TRUE
    /\ cpc' = [cpc EXCEPT ![t] = "stop_join"]
    /\ UNCHANGED <<queVars, worker_mutex, worker, constVars, born, sinkVars,
                   cerr, prodVars, ctmp, cfname, cret, ops, stopSnap, lastRet,
                   wrkVars, spurious>>

\* mutant: the thread is detached instead of joined
Exit_join_detach(t) ==
    /\ cpc[t] = "stop_join"
    /\ cpc' = [cpc EXCEPT ![t] = "stop_store"]
    /\ lastRet' = [lastRet EXCEPT ![t] = "joined"]
    /\ UNCHANGED <<queVars, lifeVars, constVars, born, sinkVars, cerr,
                   prodVars, ctmp, cfname, cret, ops, stopSnap,
                   wrkVars, spurious>>

\* lines 330-331: tmp->join() returns once get_it_done has ended; delete tmp
Exit_join(t) ==
    /\ cpc[t] = "stop_join"
    /\ wpc[ctmp[t]] = "done"
    /\ wpc' = [wpc EXCEPT ![ctmp[t]] = "unborn"]
    /\ wfinal' = [wfinal EXCEPT ![ctmp[t]] = FALSE]
    /\ winc' = [winc EXCEPT ![ctmp[t]] = 0]
    /\ cpc' = [cpc EXCEPT ![t] = "stop_store"]
    /\ lastRet' = [lastRet EXCEPT ![t] = "joined"]
    /\ UNCHANGED <<queVars, lifeVars, constVars, born, sinkVars, cerr,
                   prodVars, ctmp, cfname, cret, ops, stopSnap,
                   wp, wtmp, launches, spurious,
                   passVars>>

\* mutant: Stop does not call SetLogFile("")
Exit_store_noClear(t) ==
    /\ cpc[t] = "stop_store"
    /\ worker' = NULL
    /\ cpc' = [cpc EXCEPT ![t] = "stop_unlock"]
    /\ UNCHANGED <<queVars, shutdown, worker_mutex, constVars, born, sinkVars,
                   cerr, prodVars, ctmp, cfname, cret, ops, stopSnap, lastRet,
                   wrkVars, spurious>>

\* lines 332-335: worker.store(nullptr), then the call SetLogFile("")
Exit_store(t) ==
    /\ cpc[t] = "stop_store"
    /\ worker' = NULL
    /\ cpc' = [cpc EXCEPT ![t] = "set_lock"]
    /\ cfname' = [cfname EXCEPT ![t] = ""]
    /\ cret' = [cret EXCEPT ![t] = "stop_unlock"]
    /\ UNCHANGED <<queVars, shutdown, worker_mutex, constVars, born, sinkVars,
                   cerr, prodVars, ctmp, ops, stopSnap, lastRet,
                   wrkVars, spurious>>

\* line 337: the lock_guard releases worker_mutex; return
Exit_unlock(t) ==
    /\ cpc[t] = "stop_unlock"
    /\ worker_mutex' = NoOwner
    /\ Return(t, IF lastRet[t] = "joined" THEN "stop" ELSE "stop_noop")
    /\ UNCHANGED <<queVars, shutdown, worker, constVars, born, sinkVars, cerr,
                   prodVars, cfname, cret, ops, stopSnap, wrkVars, spurious>>

\* ================================================================ Next
Next ==
    \/ Logger_ctor
    \/ \E p \in Producers, level \in Levels, empty \in BOOLEAN :
           Log(p, level, empty)
    \/ \E p \in Producers : push_cas_ok(p)
    \/ \E p \in Producers : push_cas_fail(p)
    \/ \E p \in Producers : push_cas_spurious(p)
    \/ \E w \in Workers : get_it_done_test(w)
    \/ \E w \in Workers : get_it_done_sleep(w)
    \/ \E w \in Workers : que_dump_load(w)
    \/ \E w \in Workers : que_dump_cas_ok(w)
    \/ \E w \in Workers : que_dump_cas_fail(w)
    \/ \E w \in Workers : que_dump_cas_spurious(w)
    \/ \E w \in Workers : dump_que_tail(w)
    \/ \E w \in Workers, throws \in BOOLEAN : dump_que_lock(w, throws)
    \/ \E w \in Workers : write_copy(w)
    \/ \E w \in Workers, fails \in BOOLEAN : write_msg(w, fails)
    \/ \E w \in Workers : write_endl(w)
    \/ \E w \in Workers : dump_que_unlock(w)
    \/ \E t \in Ctl, fname \in FNames : SetLogFile(t, fname)
    \/ \E t \in Ctl : SetLogFile_lock(t)
    \/ \E t \in Ctl, opened \in BOOLEAN : SetLogFile_body(t, opened)
    \/ \E t \in Ctl : SetLogFile_unlock(t)
    \/ \E t \in Ctl : StartBackGroundThread(t)
    \/ \E t \in Ctl : Start_lock(t)
    \/ \E t \in Ctl : Start_load(t)
    \/ \E t \in Ctl : Start_xchg(t)
    \/ \E t \in Ctl : Start_new(t)
    \/ \E t \in Ctl : Start_store(t)
    \/ \E t \in Ctl : Start_unlock(t)
    \/ \E t \in Ctl : ExitLogger(t)
    \/ \E t \in Ctl : Exit_lock(t)
    \/ \E t \in Ctl : Exit_load(t)
    \/ \E t \in Ctl : Exit_xchg(t)
    \/ \E t \in Ctl : Exit_join(t)
    \/ \E t \in Ctl : Exit_store(t)
    \/ \E t \in Ctl : Exit_unlock(t)

Spec == Init /\ [][Next]_vars

\* ------------------------------------------------------------ fairness
\* every thread that can take its next step is scheduled in the end; the
\* calls themselves (Log, Start, Stop, SetLogFile) are the caller's choice
ProducerStep(p) == push_cas_ok(p) \/ push_cas_fail(p) \/ push_cas_spurious(p)

WorkerStep(w) ==
    \/ get_it_done_test(w) \/ get_it_done_sleep(w)
    \/ que_dump_load(w) \/ que_dump_cas_ok(w) \/ que_dump_cas_fail(w)
    \/ que_dump_cas_spurious(w)
    \/ dump_que_tail(w) \/ (\E throws \in BOOLEAN : dump_que_lock(w, throws))
    \/ write_copy(w) \/ (\E fails \in BOOLEAN : write_msg(w, fails))
    \/ write_endl(w)
    \/ dump_que_unlock(w)

CtlStep(t) ==
    \/ SetLogFile_lock(t) \/ SetLogFile_unlock(t)
    \/ \E opened \in BOOLEAN : SetLogFile_body(t, opened)
    \/ Start_lock(t) \/ Start_load(t) \/ Start_xchg(t) \/ Start_new(t)
    \/ Start_store(t) \/ Start_unlock(t)
    \/ Exit_lock(t) \/ Exit_load(t) \/ Exit_xchg(t) \/ Exit_join(t)
    \/ Exit_store(t) \/ Exit_unlock(t)

\* the scheduler lets some producer, the background thread and some control
\* thread take a step whenever one of them can; that is less than fairness to
\* every single thread, which a fair scheduler gives
Fairness ==
    /\ WF_vars(\E p \in Producers : ProducerStep(p))
    /\ WF_vars(\E w \in Workers : WorkerStep(w))
    /\ WF_vars(\E t \in Ctl : CtlStep(t))

InitLive == InitIn({ScnLive})

SpecLive == InitLive /\ [][Next]_vars /\ Fairness

InitFail == InitIn({ScnFail})

SpecFail == InitFail /\ [][Next]_vars

TypeOK ==
    /\ head \in Addr \cup {NULL}
    /\ worker \in Workers \cup {NULL}
    /\ log_stream \in Handles \cup {NULL}
    /\ shutdown \in BOOLEAN

\* ================================================================ claims
\* a Stop call that joined the background thread has returned
StopJoined(t) == cpc[t] = "idle" /\ lastRet[t] = "stop"
\* a Stop call of either kind has returned
StopReturned(t) == cpc[t] = "idle" /\ lastRet[t] \in {"stop", "stop_noop"}

\* C1 as stated: after any Stop call has returned, every record whose Log
\* call returned before that Stop began has been written exactly once.
C1_Original ==
    \A t \in Ctl : StopReturned(t) =>
        \A r \in stopSnap[t] : TimesWritten(r) = 1

\* C1: after a Stop call that found the worker Running and joined it has
\* returned, every record whose Log call returned before that Stop began has
\* been written exactly once.
C1_StopSynchronous ==
    \A t \in Ctl : StopJoined(t) =>
        \A r \in stopSnap[t] : TimesWritten(r) = 1

\* a joining Stop returned and a record pushed before it began was written
\* by the thread it joined
C1_Witness ==
    \E t \in Ctl : /\ StopJoined(t)
                    /\ \E i \in 1..Len(Lines) : /\ Lines[i].rec \in stopSnap[t]
                                                /\ Lines[i].by = launches

\* every producer has returned from Log
ProducersIdle == \A p \in Producers : ppc[p] = "idle"
\* the targets record r was written to, line parts included
DestsOf(r) == {out[i].dest : i \in {k \in 1..Len(out) : out[k].rec = r}}

\* C2: after a joining Stop that began when every Log call had returned, the
\* number of lines written equals the number of accepted Log calls and every
\* accepted record was written exactly once, to one destination.
C2_ExactlyOnce ==
    \A t \in Ctl :
        (StopJoined(t) /\ ProducersIdle /\ Accepted = stopSnap[t]) =>
            /\ Len(Lines) = Cardinality(want)
            /\ \A r \in want : TimesWritten(r) = 1 /\ Cardinality(DestsOf(r)) = 1

\* the last Stop of a restart cycle returned: two launches wrote lines, and
\* both producers have records
C2_Witness ==
    \E t \in Ctl :
        /\ StopJoined(t) /\ ProducersIdle /\ Accepted = stopSnap[t]
        /\ launches >= 2
        /\ \E i, j \in 1..Len(Lines) : Lines[i].by # Lines[j].by
        /\ \A p \in Producers : \E r \in want : r.prod = p

\* C3: two records of one producer are written in the order of their Log
\* calls, whatever drain pass, thread launch or destination wrote them.
C3_IntraThreadOrder ==
    \A i, j \in 1..Len(Lines) :
        (i < j /\ Lines[i].rec.prod = Lines[j].rec.prod)
            => Lines[i].rec.seq < Lines[j].rec.seq

\* two records of one producer were written by different launches, to
\* different destinations
C3_Witness ==
    \E i, j \in 1..Len(Lines) :
        /\ i < j
        /\ Lines[i].rec.prod = Lines[j].rec.prod
        /\ Lines[i].by # Lines[j].by
        /\ Lines[i].dest # Lines[j].dest

\* the thread objects that exist
LiveThreads == {w \in Workers : wpc[w] # "unborn"}

\* C4: at most one background thread exists, it is the one worker points to
\* (or is about to, in the Start that launched it), and que::dump_que is
\* never run by two threads at once.
C4_AtMostOneWorker ==
    /\ Cardinality(LiveThreads) <= 1
    /\ \A w \in LiveThreads :
          worker = w \/ \E t \in Ctl : cpc[t] = "start_store" /\ ctmp[t] = w
    /\ Cardinality({w \in Workers : wpc[w] \in {"take_load", "take_cas"}}) <= 1

\* two Start calls raced: one passed the first test, took the lock after the
\* other and finds the worker already launched
C4_Witness ==
    \E t \in Ctl : cpc[t] = "start_load" /\ worker # NULL /\ launches = 1

\* what a lifecycle call that does nothing must leave alone
LifecycleFrame == <<worker, shutdown, heap, head, log_stream, handles>>

\* C5: a Start call that finds a worker, and a Stop call that finds none,
\* change neither worker, shutdown, the que nor the destination.
C5_IdempotentNoOp ==
    [][\A t \in Ctl :
         (\/ StartBackGroundThread(t) /\ worker # NULL
          \/ Start_load(t) /\ worker # NULL
          \/ Start_unlock(t) /\ lastRet[t] # "launching"
          \/ ExitLogger(t) /\ worker = NULL
          \/ Exit_load(t) /\ worker = NULL
          \/ Exit_unlock(t) /\ lastRet[t] # "joined")
         => UNCHANGED LifecycleFrame]_vars

\* one thread's Start found a worker and did nothing, another thread's Stop
\* found none and did nothing
C5_Witness ==
    \E t, u \in Ctl : /\ lastRet[t] = "start_noop"
                       /\ lastRet[u] = "stop_noop"

\* the record a producer is pushing
PendingRecs(p) == IF pnode[p] # NULL THEN {heap[pnode[p]].val} ELSE {}
\* every record held by a node or written
AllRecs == {heap[a].val : a \in {b \in Addr : heap[b].used}} \cup
           {out[i].rec : i \in 1..Len(out)}

\* C6: no record below the threshold is ever queued or written, and the
\* records a producer has pushed are exactly those of its calls with
\* non-empty text and valid severity s >= T, each held or written once.
C6_ThresholdFiltering ==
    /\ \A r \in AllRecs : r.sev >= current_level /\ r.sev \in Trace..Error
    /\ \A p \in Producers :
          {r \in Accepted \cup PendingRecs(p) : r.prod = p}
              = {r \in want : r.prod = p}
    /\ \A r \in Accepted :
          Cardinality({a \in Addr : heap[a].used /\ heap[a].val = r})
              + TimesWritten(r) = 1

\* with a threshold above Trace, a producer made a valid call below the
\* threshold (nothing reported, nothing pushed) and one at the threshold
C6_Witness ==
    /\ current_level > Trace
    /\ cerr.log = 0
    /\ \E p \in Producers :
          /\ nCalls[p] = 2 /\ ppc[p] = "idle"
          /\ \E r \in Accepted : r.prod = p /\ r.sev = current_level
          /\ Cardinality({r \in want : r.prod = p}) = 1

\* every line is whole: "msg" is followed at once by "nl" of the same record
\* on the same target
WholeLines ==
    \A i \in 1..Len(out) :
        IF out[i].part = "msg"
        THEN \/ i = Len(out) /\ \E w \in Workers : wpc[w] = "w_endl"
             \/ /\ i < Len(out)
                /\ out[i + 1].part = "nl"
                /\ out[i + 1].rec = out[i].rec
                /\ out[i + 1].dest = out[i].dest
        ELSE /\ i > 1
             /\ out[i - 1].part = "msg"
             /\ out[i - 1].rec = out[i].rec

\* C7: every line is written whole to one target, the destination that is
\* current when it is written (the console when none is open).
C7_SwapSafety ==
    /\ WholeLines
    /\ \A i \in 1..Len(out) : out[i].dest = out[i].cur

\* a SetLogFile call waits for the lock while a line is half written, after
\* an earlier swap already moved the output to a file
C7_Witness ==
    \E t \in Ctl, w \in Workers :
        /\ cpc[t] = "set_lock"
        /\ cfname[t] # ""
        /\ wpc[w] = "w_endl"
        /\ log_stream_mutex = WrkId(w)

\* C8: a SetLogFile call whose open fails leaves the destination and every
\* stream as they are, reports once on std::cerr and returns normally.
C8_FailedOpen ==
    [][\A t \in Ctl, o \in BOOLEAN :
         (SetLogFile_body(t, o) /\ cfname[t] # "" /\ ~(o /\ UnusedHandles # {}))
         => /\ log_stream' = log_stream
            /\ handles' = handles
            /\ cerr'.open = cerr.open + 1
            /\ cpc'[t] = "set_unlock"]_vars

\* an open failed while a file was the destination; it is still the
\* destination, open, and a line went to it
C8_Witness ==
    /\ cerr.open > 0
    /\ log_stream # NULL
    /\ handles[log_stream] = "open"
    /\ \E i \in 1..Len(Lines) : Lines[i].dest = log_stream

\* a failed CAS attempt of push, spurious ones included
PushCasFails(p) == push_cas_fail(p) \/ push_cas_spurious(p)

\* C9 as stated: a CAS attempt of push fails only when another thread's push
\* or takeAll changed head since the producer last read it.
C9_Original ==
    [][\A p \in Producers : PushCasFails(p) => stale[p]]_vars

\* C9: a producer in push can always take its next step, whoever holds the
\* two mutexes; no step of Log touches a mutex; and a CAS attempt that fails
\* with head different from p->next fails because another thread's push or
\* takeAll changed head since the producer last read it (the only other
\* failure is the spurious one of compare_exchange_weak).
C9_NonBlocking ==
    /\ [](\A p \in Producers :
            ppc[p] = "push_cas" => ENABLED (push_cas_ok(p) \/ push_cas_fail(p)))
    /\ [][\A p \in Producers :
            /\ push_cas_fail(p) => stale[p]
            /\ ((\E l \in Levels, e \in BOOLEAN : Log(p, l, e))
                   \/ push_cas_ok(p) \/ PushCasFails(p))
               => UNCHANGED <<worker_mutex, log_stream_mutex>>]_vars

\* a push is pending while a drain pass holds log_stream_mutex and a Stop
\* holds worker_mutex in join
C9_Witness ==
    \E p \in Producers, w \in Workers, t \in Ctl :
        /\ ppc[p] = "push_cas"
        /\ log_stream_mutex = WrkId(w)
        /\ cpc[t] = "stop_join"
        /\ worker_mutex = CtlId(t)

\* the thread is inside ExitLogger, its call of SetLogFile("") included
InStop(t) ==
    \/ cpc[t] \in {"stop_lock", "stop_load", "stop_xchg", "stop_join",
                    "stop_store", "stop_unlock"}
    \/ cpc[t] \in {"set_lock", "set_body", "set_unlock"} /\ cret[t] = "stop_unlock"

\* C10: under fair scheduling every Stop call returns.
C10_StopTerminates ==
    \A t \in Ctl : InStop(t) ~> (cpc[t] = "idle")

\* a Stop holds worker_mutex in join while the thread it joins waits for
\* log_stream_mutex, held by a SetLogFile call of another thread
C10_Witness ==
    \E t, u \in Ctl, w \in Workers :
        /\ cpc[t] = "stop_join" /\ ctmp[t] = w
        /\ wpc[w] = "lock"
        /\ log_stream_mutex = CtlId(u)

\* C11: a Log call whose severity is outside Trace..Error or whose text is
\* empty pushes nothing, leaves the que, the destination, the output and the
\* lifecycle state unchanged, reports once on std::cerr and returns.
C11_InvalidRejected ==
    [][\A p \in Producers, l \in Levels, e \in BOOLEAN :
         (Log(p, l, e) /\ (l \notin Trace..Error \/ e))
         => /\ UNCHANGED <<heap, head, log_stream, handles, failed, out, shutdown,
                           worker, worker_mutex, log_stream_mutex, wpc>>
            /\ ppc'[p] = "idle"
            /\ pnode'[p] = NULL
            /\ cerr'.log = cerr.log + 1]_vars

\* an invalid call was reported while a worker runs and the que holds the
\* record of an earlier valid call of the same producer
C11_Witness ==
    /\ cerr.log > 0
    /\ worker # NULL
    /\ head # NULL
    /\ \E p \in Producers : nCalls[p] = 2 /\ ppc[p] = "idle" /\ heap[head].val.prod = p

\* C13: the constructor throws exactly when the level is outside Trace..Error
\* or the timeout is negative; otherwise the Logger exists, Stopped, with an
\* empty que and no destination; a Logger whose constructor threw is never used.
C13_Construction ==
    /\ [][Logger_ctor =>
            /\ (born' = "threw") <=>
                   (current_level \notin Trace..Error \/ current_timeout < 0)
            /\ (born' = "alive") <=>
                   (current_level \in Trace..Error /\ current_timeout >= 0)
            /\ born' = "alive" =>
                   /\ worker' = NULL /\ shutdown' = FALSE
                   /\ head' = NULL /\ \A a \in Addr : ~heap'[a].used
                   /\ log_stream' = NULL
                   /\ \A h \in Handles : handles'[h] = "unused"
                   /\ \A w \in Workers : wpc'[w] = "unborn"]_vars
    /\ [](born # "alive" =>
            /\ \A p \in Producers : nCalls[p] = 0
            /\ \A t \in Ctl : ops[t] = 0)

\* a Logger built with timeout 0 and the highest level has accepted a record
C13_Witness ==
    /\ born = "alive"
    /\ current_timeout = 0
    /\ current_level = Error
    /\ Accepted # {}

\* C12: no failure during a drain pass ends the background thread: after a
\* write that fails the pass goes on with the rest of the line and the next
\* record, the node is released and its record is not written again, and the
\* thread function ends only when shutdown is set.
C12_Survives ==
    [][\A w \in Workers :
         /\ (\E f \in BOOLEAN : write_msg(w, f) /\ (f \/ Bad(wtmp[w])))
               => wpc'[w] = "w_endl"
         /\ (write_endl(w) /\ Bad(wtmp[w]))
               => /\ ~heap'[wp[w]].used
                  /\ wpc'[w] \in {"w_copy", "unlock"}
         /\ (wpc[w] # "done" /\ wpc'[w] = "done") => shutdown]_vars

\* the nodes met from node a along the field f ("next" or "prev"), at most
\* n of them
RECURSIVE Walk(_, _, _, _)
Walk(h, a, f, n) ==
    IF a = NULL \/ n = 0 THEN {}
    ELSE {a} \cup Walk(h, IF f = "next" THEN h[a].next ELSE h[a].prev, f, n - 1)

\* the nodes reachable from head
HeadNodes == Walk(heap, head, "next", MaxNodes)
\* the nodes of the chain thread w took and has not released yet
ChainNodes(w) ==
    IF wpc[w] = "dump" THEN Walk(heap, wp[w], "next", MaxNodes)
    ELSE IF wpc[w] \in {"lock", "w_copy", "w_msg", "w_endl"}
         THEN Walk(heap, wp[w], "prev", MaxNodes)
         ELSE {}
\* the nodes whose push has completed and that are not released
PushedNodes == {a \in Addr : heap[a].used} \ PendingNodes

\* C14: every node whose push has completed is reachable from head, or in
\* the chain one takeAll returned, or released, and never in two of these
\* places; the nodes reachable from head are those pushed and not yet taken;
\* takeAll returns the whole chain head held and leaves head empty.
C14_NodeConservation ==
    /\ [](/\ HeadNodes \cup UNION {ChainNodes(w) : w \in Workers} = PushedNodes
          /\ \A w \in Workers : HeadNodes \cap ChainNodes(w) = {}
          /\ \A w, v \in Workers :
                w # v => ChainNodes(w) \cap ChainNodes(v) = {}
          /\ HeadNodes = {pushed[i].a : i \in 1..Len(pushed)}
          /\ Cardinality(HeadNodes) = Len(pushed)
          /\ \A i \in 1..Len(pushed) : heap[pushed[i].a].val = pushed[i].rec)
    /\ [][\A w \in Workers : que_dump_cas_ok(w) =>
            /\ head' = NULL
            /\ wp'[w] = head
            /\ Walk(heap', wp'[w], "next", MaxNodes) = HeadNodes]_vars

\* a chain of two nodes was taken while a push was pending whose node still
\* points into that chain
C14_Witness ==
    \E p \in Producers, w \in Workers :
        /\ ppc[p] = "push_cas"
        /\ Cardinality(ChainNodes(w)) >= 2
        /\ heap[pnode[p]].next \in ChainNodes(w)

\* thread w is between the lock of a drain pass and its unlock, at a node
InPass(w) == wpc[w] \in {"lock", "w_copy", "w_msg", "w_endl"}

\* C15: a drain pass over a chain of any length starts, after get_tail, at
\* the node pushed first, writes the nodes in the order their pushes took
\* effect on head, each once, releases each node with its write, stands only
\* on nodes not yet released, and ends after the node that was head.
C15_Chronological ==
    /\ [](\A w \in Workers :
            /\ wpc[w] = "dump" =>
                  /\ (wp[w] = NULL) <=> (wchain[w] = <<>>)
                  /\ wp[w] # NULL => wp[w] = wchain[w][Len(wchain[w])].a
            /\ InPass(w) =>
                  /\ wdone[w] < Len(wchain[w])
                  /\ wp[w] = wchain[w][wdone[w] + 1].a
                  /\ heap[wp[w]].used
                  /\ heap[wp[w]].val = wchain[w][wdone[w] + 1].rec
            /\ wpc[w] = "unlock" =>
                  wp[w] = NULL /\ wdone[w] = Len(wchain[w]))
    /\ [][\A w \in Workers : write_endl(w) =>
            /\ out' = Append(out, [rec |-> wchain[w][wdone[w] + 1].rec,
                                   dest |-> Target(log_stream), part |-> "nl",
                                   cur |-> Target(log_stream), by |-> winc[w]])
            /\ heap[wp[w]].used /\ ~heap'[wp[w]].used
            /\ (wpc'[w] = "unlock") <=> (wp[w] = wchain[w][Len(wchain[w])].a)]_vars

\* a pass over a chain of three nodes pushed by two producers is over
C15_Witness ==
    \E w \in Workers :
        /\ wpc[w] = "unlock"
        /\ Len(wchain[w]) = 3
        /\ \E i, j \in 1..Len(wchain[w]) :
              wchain[w][i].rec.prod # wchain[w][j].rec.prod

\* C16: the background thread holds log_stream_mutex for one line only:
\* between two lines of one drain pass it does not hold the mutex, so that a
\* SetLogFile call waiting for the mutex can take it there.
C16_LockPerLine ==
    \A w \in Workers :
        (wpc[w] = "w_copy" /\ wdone[w] >= 1) =>
            /\ log_stream_mutex # WrkId(w)
            /\ \A t \in Ctl : cpc[t] = "set_lock" => ENABLED SetLogFile_lock(t)

\* C17: once shutdown is set the background thread waits for no timer: no
\* sleep_for of a positive interval is still running, or ends, while
\* shutdown is set.
C17_PromptFlush ==
    [][\A w \in Workers :
         (get_it_done_sleep(w) /\ current_timeout > 0) => ~shutdown]_vars

\* the streams that are open
OpenHandles == {h \in Handles : handles[h] = "open"}
\* the target of the line part the step has written, if it has written one
WroteTo(h) == Len(out') = Len(out) + 1 /\ out'[Len(out')].dest = h

\* what C18 says of every state: the destination is an open stream or none,
\* every other stream that was opened is closed, none was closed twice
HandlesInv ==
    /\ log_stream # NULL => handles[log_stream] = "open"
    /\ OpenHandles \subseteq {log_stream}
    /\ \A h \in Handles : handles[h] # "twice"
\* no line part goes to a stream that is closed
NoWriteAfterClose ==
    \A h \in Handles : WroteTo(h) => handles[h] = "open" /\ handles'[h] = "open"

\* C18 as stated: the above, and when a Stop call that joined the worker
\* returns no stream is open.
C18_Original ==
    /\ []HandlesInv
    /\ [][/\ NoWriteAfterClose
          /\ \A t \in Ctl : (Exit_unlock(t) /\ lastRet[t] = "joined")
                               => OpenHandles = {}]_vars

\* C18: at most one stream is the destination; a stream that was opened and
\* then replaced or cleared is closed, once; no line goes to a closed stream;
\* and when a Stop call that joined the worker clears the destination no
\* stream is left open (a stream open when that Stop returns is the
\* destination a SetLogFile call of another thread has set since).
C18_HandleLifecycle ==
    /\ []HandlesInv
    /\ [][/\ NoWriteAfterClose
          /\ \A t \in Ctl, o \in BOOLEAN :
                (SetLogFile_body(t, o) /\ cret[t] = "stop_unlock")
                   => log_stream' = NULL /\ \A h \in Handles : handles'[h] # "open"
          /\ \A t \in Ctl : (Exit_unlock(t) /\ lastRet[t] = "joined")
                               => OpenHandles \subseteq {log_stream}]_vars

\* a joining Stop has returned; one stream was replaced by SetLogFile, one
\* was cleared by the Stop, both are closed and a line went to one of them
C18_Witness ==
    \E t \in Ctl :
        /\ StopJoined(t)
        /\ OpenHandles = {}
        /\ Cardinality({h \in Handles : handles[h] = "closed"}) >= 2
        /\ \E i \in 1..Len(Lines) :
              Lines[i].dest # NULL /\ handles[Lines[i].dest] = "closed"

\* C19: a Stop call that joined the worker then calls SetLogFile(""), which
\* sets the destination to none and closes the stream that was current,
\* before the Stop returns; the destination stays none until a SetLogFile
\* call with a file name opens one; a Stop call that finds no worker leaves
\* the destination and every stream as they are.
C19_StopClears ==
    /\ [](\A t \in Ctl :
            (cpc[t] = "set_unlock" /\ cret[t] = "stop_unlock")
                => log_stream = NULL)
    /\ [][/\ \A t \in Ctl :
               /\ Exit_store(t) =>
                     /\ lastRet[t] = "joined" /\ wpc[ctmp[t]] = "unborn"
                     /\ cpc'[t] = "set_lock" /\ cfname'[t] = ""
                     /\ cret'[t] = "stop_unlock"
               /\ (\E o \in BOOLEAN : SetLogFile_body(t, o) /\ cret[t] = "stop_unlock")
                     => /\ log_stream' = NULL
                        /\ log_stream # NULL => handles'[log_stream] = "closed"
               /\ (ExitLogger(t) /\ worker = NULL)
                     => UNCHANGED <<log_stream, handles>> /\ cpc'[t] = "idle"
               /\ (Exit_load(t) /\ worker = NULL)
                     => UNCHANGED <<log_stream, handles>> /\ cpc'[t] = "stop_unlock"
          /\ (log_stream = NULL /\ log_stream' # NULL) =>
                \E t \in Ctl : /\ SetLogFile_body(t, TRUE)
                               /\ cfname[t] # "" /\ cret[t] = "idle"
          /\ \A w \in Workers : write_endl(w) /\ log_stream = NULL
                                   => WroteTo(NULL)]_vars

\* after SetLogFile, Start, Stop, Start by one thread the first launch has
\* written to the file, which is closed, and the second to the console
C19_Witness ==
    /\ launches = 2
    /\ Cardinality({h \in Handles : handles[h] # "unused"}) = 1
    /\ \E i, j \in 1..Len(Lines) :
          /\ i < j
          /\ Lines[i].by = 1 /\ Lines[i].dest # NULL
          /\ handles[Lines[i].dest] = "closed"
          /\ Lines[j].by = 2 /\ Lines[j].dest = NULL

\* the records reachable from head
HeadRecs == {heap[a].val : a \in HeadNodes}
\* the last n lines written are the records of chain c, in its order
LastLines(c) ==
    /\ Len(Lines) >= Len(c)
    /\ \A i \in 1..Len(c) : Lines[Len(Lines) - Len(c) + i].rec = c[i].rec

\* C20: Start clears shutdown before it launches the thread; while no
\* background thread exists nothing is written and no node leaves the que;
\* the records in the que when a thread is launched stay there, unwritten,
\* until its first takeAll, are all in the chain of that takeAll, and are
\* all written, in push order, by that thread when its first pass ends.
C20_RestartRetains ==
    /\ [](\A w \in Workers :
            /\ wpc[w] \in {"loop", "sleep", "take_load", "take_cas"} =>
                  /\ startSnap[w] \subseteq HeadRecs
                  /\ \A r \in startSnap[w] : TimesWritten(r) = 0
            /\ (wpc[w] = "dump" \/ InPass(w)) =>
                  \A r \in startSnap[w] :
                     \E i \in 1..Len(wchain[w]) :
                        /\ wchain[w][i].rec = r
                        /\ TimesWritten(r) = IF i <= wdone[w] THEN 1 ELSE 0)
    /\ [][/\ \A t \in Ctl : Start_new(t) => shutdown = FALSE
          /\ LiveThreads = {} =>
                /\ out' = out
                /\ HeadNodes \subseteq Walk(heap', head', "next", MaxNodes)
                /\ \A a \in HeadNodes : heap'[a] = heap[a]
          /\ \A w \in Workers :
                /\ (dump_que_tail(w) /\ wp[w] = NULL) => startSnap[w] = {}
                /\ dump_que_unlock(w) =>
                      /\ LastLines(wchain[w])
                      /\ \A r \in startSnap[w] :
                            /\ TimesWritten(r) = 1
                            /\ \A i \in 1..Len(Lines) :
                                  Lines[i].rec = r => Lines[i].by = winc[w]]_vars

\* the first pass of the second launch is over: it wrote two records that
\* were pushed while no background thread existed
C20_Witness ==
    \E w \in Workers :
        /\ wpc[w] = "unlock"
        /\ winc[w] = 2
        /\ Cardinality(startSnap[w]) >= 2
        /\ \E i \in 1..Len(Lines) : Lines[i].by = 1

====
